---------------------------- MODULE Spec2Model ----------------------------
(***************************************************************************)
(* Natural parameter continuation (pacopy.natural) and its Newton          *)
(* corrector (newton).                                                     *)
(*                                                                         *)
(* Python floats are modelled as what they are, IEEE-754 doubles: a sign,  *)
(* a mantissa of up to 53 bits and an exponent, with the zeros, inf, -inf  *)
(* and nan.  The arithmetic of the driver (+, -, *, / 2, ** 2, int / int,  *)
(* min, <, ==) rounds, overflows and underflows as the float operations    *)
(* do.                                                                     *)
(*                                                                         *)
(* The problem object is an external collaborator: the outcome of each     *)
(* Newton solve is drawn from the residual-norm behaviours it can show     *)
(* (for each number of corrections j, whether the norm is below tol).      *)
(* The solution u is identified by the parameter value it is a converged   *)
(* root for.                                                               *)
(***************************************************************************)
EXTENDS Integers, Sequences, FiniteSets, TLC

VARIABLES
    args,             \* the arguments natural() was called with (never assigned)
    pc,               \* position in natural(): "start", "loop", "corrector", "returned", "raised"
    exc,              \* the exception that left natural(), "" when none
    lmbda,            \* local lmbda
    milestones,       \* the milestones iterator: [given, sized, rest]
    milestone,        \* local milestone (Unbound before line 71 assigns it)
    k,                \* local k, the step index
    u,                \* local u: the parameter value u is a converged root for
    u0,               \* local u0: the corrector's initial guess [order, from, stepsize]
    lambda_stepsize,  \* local lambda_stepsize
    newton_steps,     \* local newton_steps of the last successful corrector
    halvings,         \* number of Newton failures so far (bounded by MaxHalvings)
    u_corrections,    \* corrections made in place to the array u refers to since it was accepted
    nw,               \* one call of newton(): its arguments, position and locals
    trace             \* what natural() did so far: predictor, newton and callback calls

vars == <<args, pc, exc, lmbda, milestones, milestone, k, u, u0,
          lambda_stepsize, newton_steps, halvings, u_corrections, nw, trace>>

-----------------------------------------------------------------------------
(* Bounds of the exploration *)

\* the corrector fails at most this many times in one run
MaxHalvings == 3
\* with max_steps = inf and no milestones the loop is cut at this step index
MaxK == 3
\* largest finite max_steps drawn
MaxMaxSteps == 2
\* largest max_iter a single newton() call is given
MaxIter == 3

-----------------------------------------------------------------------------
(* Natural numbers of any size *)

\* A natural number is the sequence of its digits in base 2^15, lowest digit
\* first, the highest digit not 0; <<>> is 0.  Mantissas of doubles have 53
\* bits, sums and products of them more.
LimbBits == 15
Base == 2 ^ LimbBits

Abs(x) == IF x < 0 THEN -x ELSE x

RECURSIVE BigOf(_)
BigOf(n) == IF n = 0 THEN <<>> ELSE <<n % Base>> \o BigOf(n \div Base)

RECURSIVE IntOf(_)
IntOf(a) == IF a = <<>> THEN 0 ELSE a[1] + Base * IntOf(Tail(a))

Limb(a, i) == IF i <= Len(a) THEN a[i] ELSE 0

RECURSIVE BTrim(_)
BTrim(a) ==
    IF a # <<>> /\ a[Len(a)] = 0 THEN BTrim(SubSeq(a, 1, Len(a) - 1)) ELSE a

RECURSIVE BAddFrom(_, _, _, _)
BAddFrom(a, b, i, carry) ==
    IF i > Len(a) /\ i > Len(b)
    THEN IF carry = 0 THEN <<>> ELSE <<carry>>
    ELSE LET x == Limb(a, i) + Limb(b, i) + carry
         IN <<x % Base>> \o BAddFrom(a, b, i + 1, x \div Base)
BAdd(a, b) == BAddFrom(a, b, 1, 0)

RECURSIVE BSubFrom(_, _, _, _)
BSubFrom(a, b, i, borrow) ==
    IF i > Len(a)
    THEN <<>>
    ELSE LET x == a[i] - Limb(b, i) - borrow
         IN <<(x + Base) % Base>> \o BSubFrom(a, b, i + 1, IF x < 0 THEN 1 ELSE 0)
\* a - b, for a >= b
BSub(a, b) == BTrim(BSubFrom(a, b, 1, 0))

RECURSIVE BCmpFrom(_, _, _)
BCmpFrom(a, b, i) ==
    IF i = 0 THEN 0
    ELSE IF a[i] < b[i] THEN -1
    ELSE IF a[i] > b[i] THEN 1
    ELSE BCmpFrom(a, b, i - 1)
\* -1, 0 or 1 as a is below, equal to or above b
BCmp(a, b) ==
    IF Len(a) < Len(b) THEN -1
    ELSE IF Len(a) > Len(b) THEN 1
    ELSE BCmpFrom(a, b, Len(a))

RECURSIVE BMulLimbFrom(_, _, _, _)
BMulLimbFrom(a, x, i, carry) ==
    IF i > Len(a)
    THEN IF carry = 0 THEN <<>> ELSE <<carry>>
    ELSE LET p == a[i] * x + carry
         IN <<p % Base>> \o BMulLimbFrom(a, x, i + 1, p \div Base)
\* a * x for one digit x
BMulLimb(a, x) == IF x = 0 THEN <<>> ELSE BMulLimbFrom(a, x, 1, 0)

RECURSIVE BMulFrom(_, _, _)
BMulFrom(a, b, j) ==
    IF j > Len(b)
    THEN <<>>
    ELSE LET r == BMulFrom(a, b, j + 1)
         IN BAdd(BMulLimb(a, b[j]), IF r = <<>> THEN <<>> ELSE <<0>> \o r)
BMul(a, b) == BMulFrom(a, b, 1)

RECURSIVE Zeros(_)
Zeros(q) == IF q = 0 THEN <<>> ELSE <<0>> \o Zeros(q - 1)

\* a * 2^n
BShl(a, n) ==
    IF a = <<>> THEN <<>>
    ELSE Zeros(n \div LimbBits) \o BMulLimb(a, 2 ^ (n % LimbBits))

RECURSIVE BShrFrom(_, _, _)
BShrFrom(a, p, i) ==
    IF i > Len(a)
    THEN <<>>
    ELSE <<(a[i] \div p) + (Limb(a, i + 1) % p) * (Base \div p)>>
             \o BShrFrom(a, p, i + 1)
\* a \div 2^n
BShr(a, n) == BTrim(BShrFrom(a, 2 ^ (n % LimbBits), n \div LimbBits + 1))

\* bit i of a, bit 0 being the lowest
BBit(a, i) == (Limb(a, i \div LimbBits + 1) \div 2 ^ (i % LimbBits)) % 2

\* the n lowest bits of a are all 0
BLowZero(a, n) ==
    /\ \A j \in 1 .. n \div LimbBits : Limb(a, j) = 0
    /\ Limb(a, n \div LimbBits + 1) % 2 ^ (n % LimbBits) = 0

RECURSIVE BitLen(_)
BitLen(x) == IF x = 0 THEN 0 ELSE 1 + BitLen(x \div 2)
\* the number of bits of a
BBitLen(a) ==
    IF a = <<>> THEN 0 ELSE LimbBits * (Len(a) - 1) + BitLen(a[Len(a)])

RECURSIVE TrailingZeros(_)
TrailingZeros(x) == IF x % 2 = 1 THEN 0 ELSE 1 + TrailingZeros(x \div 2)
RECURSIVE BTrailingZerosFrom(_, _)
BTrailingZerosFrom(a, i) ==
    IF a[i] = 0
    THEN LimbBits + BTrailingZerosFrom(a, i + 1)
    ELSE TrailingZeros(a[i])
\* the number of 0 bits below the lowest 1 bit of a, a # 0
BTrailingZeros(a) == BTrailingZerosFrom(a, 1)

\* the largest digit x in lo .. hi with d * x <= cur
RECURSIVE BDigit(_, _, _, _)
BDigit(cur, d, lo, hi) ==
    IF lo = hi
    THEN lo
    ELSE LET mid == (lo + hi + 1) \div 2
         IN IF BCmp(BMulLimb(d, mid), cur) <= 0
            THEN BDigit(cur, d, mid, hi)
            ELSE BDigit(cur, d, lo, mid - 1)

\* long division: quotient and remainder by d of the digits i .. of n
RECURSIVE BDivModFrom(_, _, _)
BDivModFrom(n, d, i) ==
    IF i > Len(n)
    THEN [q |-> <<>>, r |-> <<>>]
    ELSE LET h == BDivModFrom(n, d, i + 1)
             cur == BTrim(<<n[i]>> \o h.r)
             x == BDigit(cur, d, 0, Base - 1)
         IN [q |-> BTrim(<<x>> \o h.q), r |-> BSub(cur, BMulLimb(d, x))]
\* quotient and remainder of n by d, d # 0
BDivMod(n, d) == BDivModFrom(n, d, 1)

-----------------------------------------------------------------------------
(* Python floats: IEEE-754 binary64, round to nearest, ties to even *)

\* bits of a mantissa
Precision == 53
\* the smallest positive double is 2^MinExp
MinExp == -1074
\* every finite double is below 2^MaxExp
MaxExp == 1024

\* the double s * m * 2^e, s = 1 or -1, m odd (or m = 0 = <<>> and e = 0:
\* the zeros 0.0 and -0.0)
Finite(s, m, e) == [cls |-> "fin", s |-> s, m |-> m, e |-> e]
Zero(s) == Finite(s, <<>>, 0)
Inf == [cls |-> "inf", s |-> 1, m |-> <<>>, e |-> 0]
NegInf == [cls |-> "inf", s |-> -1, m |-> <<>>, e |-> 0]
NaN == [cls |-> "nan", s |-> 1, m |-> <<>>, e |-> 0]
\* a local that no statement has assigned yet
Unbound == [cls |-> "unbound", s |-> 1, m |-> <<>>, e |-> 0]
SignedInf(s) == IF s = 1 THEN Inf ELSE NegInf
\* 2^e as a double, MinExp <= e < MaxExp
TwoTo(e) == Finite(1, <<1>>, e)

IsInf(a) == a = Inf
IsNaN(a) == a.cls = "nan"
IsFinite(a) == a.cls = "fin"
IsZero(a) == a.cls = "fin" /\ a.m = <<>>

\* CHOOSE r \in {F(v) : v \in {x}} : TRUE is F(x), with x evaluated once also
\* where F uses it many times: the float operations take their operands so.

\* s * m * 2^e, which is a double, with m made odd
NormalOf(s, m, e) ==
    IF m = <<>> THEN Zero(s)
    ELSE LET z == BTrailingZeros(m)
         IN IF z = 0 THEN Finite(s, m, e) ELSE Finite(s, BShr(m, z), e + z)
Normal(s, m, e) == CHOOSE r \in {NormalOf(s, v, e) : v \in {m}} : TRUE

\* s * m * 2^e rounded to a double: to the nearest one, ties to the even
\* mantissa (mode "nearest"), or to the next one towards 0 ("down") or away
\* from 0 ("up"); inf beyond the largest double, 0 or a subnormal below the
\* smallest normal one
RoundToOf(mode, s, m, e) ==
    IF m = <<>> THEN Zero(s)
    ELSE LET len == BBitLen(m)
             \* the exponent of the last mantissa bit the result can have
             q == IF len + e - Precision > MinExp THEN len + e - Precision ELSE MinExp
             sh == q - e
         IN IF sh <= 0
            THEN IF len + e > MaxExp THEN SignedInf(s) ELSE Normal(s, m, e)
            ELSE LET t == BShr(m, sh)
                     up == IF mode = "nearest"
                           THEN /\ BBit(m, sh - 1) = 1
                                /\ (BBit(m, sh) = 1 \/ ~BLowZero(m, sh - 1))
                           ELSE mode = "up" /\ ~BLowZero(m, sh)
                     r == IF up THEN BAdd(t, <<1>>) ELSE t
                 IN IF BBitLen(r) + q > MaxExp THEN SignedInf(s) ELSE Normal(s, r, q)

RoundTo(mode, s, m, e) ==
    CHOOSE r \in {RoundToOf(mode, s, v[1], v[2]) : v \in {<<m, e>>}} : TRUE
\* the result of a float operation whose exact value is s * m * 2^e
Round(s, m, e) == RoundTo("nearest", s, m, e)

\* Python n / d for ints n and d # 0: the double nearest to the quotient
R(n, d) ==
    LET s == IF (n < 0) # (d < 0) THEN -1 ELSE 1
        an == Abs(n)
        ad == Abs(d)
    IN IF an % ad = 0
       THEN Round(s, BigOf(an \div ad), 0)
       ELSE IF 2 ^ TrailingZeros(ad) = ad
       THEN Round(s, BigOf(an), -TrailingZeros(ad))
       ELSE LET bd == BigOf(ad)
                sh == Precision + 2 + BBitLen(bd)
                qr == BDivMod(BShl(BigOf(an), sh), bd)
            \* one more bit below the quotient says that a remainder is left
            IN Round(s, BAdd(BShl(qr.q, 1), IF qr.r = <<>> THEN <<>> ELSE <<1>>),
                     -sh - 1)

\* -1, 0 or 1 as |a| is below, equal to or above |b|, for finite a, b # 0
CmpMag(a, b) ==
    LET ta == BBitLen(a.m) + a.e
        tb == BBitLen(b.m) + b.e
        e == IF a.e < b.e THEN a.e ELSE b.e
    IN IF ta < tb THEN -1
       ELSE IF ta > tb THEN 1
       ELSE BCmp(BShl(a.m, a.e - e), BShl(b.m, b.e - e))

\* a + b for finite a, b # 0 with |b| < |a| / 2^(Precision + 6): b is far
\* below the last mantissa bit of the sum and only says on which side of a
\* the sum lies; 2^-(Precision + 6) of a does so as well
AddFar(a, b) ==
    LET sh == Precision + 6 - BBitLen(a.m)
        ma == BShl(a.m, sh)
    IN Round(a.s, IF a.s = b.s THEN BAdd(ma, <<1>>) ELSE BSub(ma, <<1>>), a.e - sh)

\* a + b
FAddOf(a, b) ==
    IF IsFinite(a) /\ IsFinite(b)
    THEN IF a.m = <<>> /\ b.m = <<>> THEN Zero(IF a.s = b.s THEN a.s ELSE 1)
         ELSE IF a.m = <<>> THEN b
         ELSE IF b.m = <<>> THEN a
         ELSE LET ta == BBitLen(a.m) + a.e
                  tb == BBitLen(b.m) + b.e
                  e == IF a.e < b.e THEN a.e ELSE b.e
                  ma == BShl(a.m, a.e - e)
                  mb == BShl(b.m, b.e - e)
                  c == BCmp(ma, mb)
              IN IF ta - tb > Precision + 6 THEN AddFar(a, b)
                 ELSE IF tb - ta > Precision + 6 THEN AddFar(b, a)
                 ELSE IF a.s = b.s THEN Round(a.s, BAdd(ma, mb), e)
                 ELSE IF c = 0 THEN Zero(1)
                 ELSE IF c > 0 THEN Round(a.s, BSub(ma, mb), e)
                 ELSE Round(b.s, BSub(mb, ma), e)
    ELSE IF IsNaN(a) \/ IsNaN(b) THEN NaN
    ELSE IF IsFinite(a) THEN b
    ELSE IF IsFinite(b) THEN a
    ELSE IF a = b THEN a ELSE NaN
FAdd(a, b) == CHOOSE r \in {FAddOf(v[1], v[2]) : v \in {<<a, b>>}} : TRUE
FNeg(a) == IF IsNaN(a) THEN a ELSE [a EXCEPT !.s = -a.s]
\* a - b
FSub(a, b) == FAdd(a, FNeg(b))
\* a * b
FMulOf(a, b) ==
    IF IsFinite(a) /\ IsFinite(b)
    THEN Round(a.s * b.s, BMul(a.m, b.m), a.e + b.e)
    ELSE IF IsNaN(a) \/ IsNaN(b) \/ IsZero(a) \/ IsZero(b) THEN NaN
    ELSE SignedInf(a.s * b.s)
FMul(a, b) == CHOOSE r \in {FMulOf(v[1], v[2]) : v \in {<<a, b>>}} : TRUE
\* a ** 2 for a finite a whose square is below 2^MaxExp: float ** calls the
\* pow() of the C library, which is not bound to round to the nearest double:
\* one of the two doubles around the exact square, the square itself when it
\* is a double
Squares(a) ==
    LET m == BMul(a.m, a.m)
    IN {RoundTo("down", 1, m, 2 * a.e), RoundTo("up", 1, m, 2 * a.e)}
\* a / 2
FHalf(a) == IF IsFinite(a) THEN Round(a.s, a.m, a.e - 1) ELSE a
\* a < b: False when an operand is nan
FLtOf(a, b) ==
    IF IsNaN(a) \/ IsNaN(b) THEN FALSE
    ELSE LET sa == IF IsZero(a) THEN 0 ELSE a.s
             sb == IF IsZero(b) THEN 0 ELSE b.s
         IN IF sa # sb THEN sa < sb
            ELSE IF sa = 0 THEN FALSE
            ELSE IF ~IsFinite(a) \/ ~IsFinite(b)
            THEN IF sa = 1 THEN IsFinite(a) /\ ~IsFinite(b)
                 ELSE ~IsFinite(a) /\ IsFinite(b)
            ELSE CmpMag(a, b) = -sa
FLt(a, b) == CHOOSE r \in {FLtOf(v[1], v[2]) : v \in {<<a, b>>}} : TRUE
\* a == b: False when an operand is nan, True for 0.0 and -0.0
FEq(a, b) == ~IsNaN(a) /\ ~IsNaN(b) /\ (a = b \/ (IsZero(a) /\ IsZero(b)))
FLe(a, b) == FEq(a, b) \/ FLt(a, b)
\* Python min(a, b): b when b < a, else a
FMin(a, b) ==
    CHOOSE r \in {IF FLt(v[2], v[1]) THEN v[2] ELSE v[1] : v \in {<<a, b>>}} : TRUE
\* the int a float stands for, for a float that is a small int >= 0
IntOfFloat(a) == IntOf(a.m) * 2 ^ a.e

-----------------------------------------------------------------------------
(* newton() *)

\* The loop of newton() of pycont/newton.py, newton(f, jacobian_solver, u0,
\* tol, max_iter): whether it converged and k, the number of corrections
\* made.  below[j] says whether the residual norm after j corrections is
\* below tol.  Convergence is tested at the top of the loop body, that is
\* only while k < max_iter.
\* variant: the loop test is off by one, k <= max_iter
loop_continues_once_more(kk, max_iter) == kk <= max_iter

\* line 20: while k < max_iter
loop_continues(kk, max_iter) == kk < max_iter

RECURSIVE newton_loop(_, _, _)
newton_loop(below, max_iter, kk) ==
    IF loop_continues(kk, max_iter)
    THEN IF below[kk]
         THEN [is_converged |-> TRUE, k |-> kk]
         ELSE newton_loop(below, max_iter, kk + 1)
    ELSE [is_converged |-> FALSE, k |-> kk]

newton(below, max_iter) == newton_loop(below, max_iter, 0)

\* Arrays are objects: a name (u0, u) refers to an array, and u += du changes
\* the array u refers to, under every name it has.
\* variant: newton() iterates on the caller's array, u = u0
copy_alias(array) == array

\* line 11: u0.copy() is a new array
copy(array) == "u0.copy()"

\* the residual-norm behaviours a problem can show to one newton() call
NormBehaviours(max_iter) == [0 .. max_iter -> BOOLEAN]

-----------------------------------------------------------------------------
(* The Newton solver natural() calls *)

\* natural() imports newton from pacopy/newton.py and calls it as
\* newton(f, jacobian_solver, norm2_r, u0, tol=, max_iter=), unpacking the
\* pair (u, newton_steps).  That module is a sibling of natural.py; the
\* newton() of pycont/newton.py takes no norm argument and returns u alone,
\* so it is not the function called.  solve() follows the Newton Solver of
\* the specification: while the norm is not below tol and fewer than
\* max_iter corrections were made, correct; the call succeeds with the number
\* of corrections made when the norm is below tol, and fails once max_iter
\* is exhausted without that.
RECURSIVE solve_loop(_, _, _)
solve_loop(below, max_iter, kk) ==
    IF ~below[kk] /\ kk < max_iter
    THEN solve_loop(below, max_iter, kk + 1)
    ELSE [is_converged |-> below[kk], k |-> kk]

solve(below, max_iter) == solve_loop(below, max_iter, 0)

\* The arrays the solver may iterate on, u0_array being the array passed as
\* u0.  The specification has the iterate updated in place (u += du in the
\* algorithm; the state vector is "mutated in place across Newton
\* iterations") and the solver free of side effects, and does not say
\* whether the iterate starts as the array u0 or as a copy of it: either.
solve_iterates_on(u0_array) == {u0_array, "copy"}

-----------------------------------------------------------------------------
(* natural() *)

Event(ev, kk, l, s, ok) == [ev |-> ev, k |-> kk, lmbda |-> l, stepsize |-> s, ok |-> ok]

Lambda0s == {R(0, 1)}
Stepsize0s == {R(1, 4), R(1, 1)}
StepsizeMaxs == {R(1, 2), Inf}
Aggressivenesses == {R(0, 1), R(2, 1)}
MaxNewtonStepss == 0 .. 3
MaxStepss == {R(i, 1) : i \in 0 .. MaxMaxSteps} \cup {Inf}

\* The milestones argument: None (given = FALSE) or an iterable, of which
\* line 50 takes the iterator.  rest holds the values next() has not drawn
\* yet.  sized says what the truth value of the iterator is: the iterator of
\* a list, a tuple or a generator has no __bool__ and no __len__ and is
\* always true (sized = FALSE); an iterator that defines one of them, as a
\* peekable iterator does, is true while it has values left (sized = TRUE).
NoMilestones == [given |-> FALSE, sized |-> FALSE, rest |-> <<>>]
MilestoneArgs ==
    { NoMilestones,
      [given |-> TRUE, sized |-> FALSE, rest |-> <<>>],
      [given |-> TRUE, sized |-> FALSE, rest |-> <<R(1, 2)>>],
      [given |-> TRUE, sized |-> FALSE, rest |-> <<R(1, 2), R(1, 1)>>],
      [given |-> TRUE, sized |-> TRUE, rest |-> <<R(1, 2)>>],
      [given |-> TRUE, sized |-> TRUE, rest |-> <<R(1, 2), R(1, 1)>>] }

GridArgs ==
    [ lambda0 : Lambda0s,
      lambda_stepsize0 : Stepsize0s,
      lambda_stepsize_max : StepsizeMaxs,
      lambda_stepsize_aggressiveness : Aggressivenesses,
      max_newton_steps : MaxNewtonStepss,
      max_steps : MaxStepss,
      use_first_order_predictor : BOOLEAN,
      milestones : MilestoneArgs ]

\* lines 11-19: the default values of the keyword arguments
DefaultArgs ==
    [ lambda0 |-> R(0, 1),
      lambda_stepsize0 |-> R(1, 10),
      lambda_stepsize_max |-> Inf,
      lambda_stepsize_aggressiveness |-> R(2, 1),
      max_newton_steps |-> 5,
      max_steps |-> Inf,
      use_first_order_predictor |-> TRUE,
      milestones |-> NoMilestones ]

\* calls in which the float operations round: a step below the spacing of
\* the doubles around lambda0, the smallest positive double as step, and
\* max_newton_steps = 4, with thirds in the growth factor
RoundingArgs ==
    { [DefaultArgs EXCEPT !.lambda0 = R(1, 1), !.lambda_stepsize0 = TwoTo(-53),
                          !.max_newton_steps = 2,
                          !.use_first_order_predictor = FALSE],
      [DefaultArgs EXCEPT !.lambda_stepsize0 = TwoTo(MinExp),
                          !.max_newton_steps = 2],
      [DefaultArgs EXCEPT !.lambda_stepsize0 = R(1, 1), !.max_newton_steps = 4] }

Args == GridArgs \cup {DefaultArgs} \cup RoundingArgs


\* variant: the test is off by one, k > max_steps + 1
max_steps_exceeded_late == FLt(args.max_steps, R(k - 1, 1))

\* line 74: k > max_steps
max_steps_exceeded == FLt(args.max_steps, R(k, 1))

\* line 85: the truth value of milestones, which is None or the iterator
truth(ms) == ms.given /\ (ms.sized => ms.rest # <<>>)

\* lines 85-86: if milestones: lmbda = min(lmbda, milestone)
clamp(l) == IF truth(milestones) THEN FMin(l, milestone) ELSE l

\* variant: the step index skips a value
next_k_skip(kk) == kk + 2

\* lines 67 and 111: k += 1
next_k(kk) == kk + 1

\* line 106: lmbda -= lambda_stepsize
backoff_lmbda(l, s) == FSub(l, s)

\* line 107: lambda_stepsize /= 2
backoff_stepsize(s) == FHalf(s)

\* variant: exhaustion of the iterator does not leave the loop
advance_milestone_no_break ==
    IF milestones.rest = <<>>
    THEN /\ pc' = "loop"
         /\ exc' = ""
         /\ UNCHANGED <<milestone, milestones>>
    ELSE /\ milestone' = Head(milestones.rest)
         /\ milestones' = [milestones EXCEPT !.rest = Tail(@)]
         /\ pc' = "loop"
         /\ exc' = ""

\* lines 113-116: milestone = next(milestones), leaving the loop when the
\* iterator is exhausted
advance_milestone ==
    IF milestones.rest = <<>>
    THEN /\ pc' = "returned"
         /\ exc' = ""
         /\ UNCHANGED <<milestone, milestones>>
    ELSE /\ milestone' = Head(milestones.rest)
         /\ milestones' = [milestones EXCEPT !.rest = Tail(@)]
         /\ pc' = "loop"
         /\ exc' = ""

\* no call of newton() is followed step by step
NewtonIdle ==
    [pc |-> "idle", max_iter |-> 0, below |-> [j \in 0 .. 0 |-> FALSE], k |-> 0,
     is_converged |-> FALSE, solves |-> 0,
     \* the array the caller passed, the array newton() iterates on, and the
     \* number of in-place corrections u += du each array has received
     u0 |-> "u0", u |-> "", arrays |-> [a \in {"u0"} |-> 0]]

\* lines 48-52: lmbda = lambda0, milestones = iter(milestones), k = 0
Init ==
    /\ args \in Args
    /\ pc = "start"
    /\ exc = ""
    /\ lmbda = args.lambda0
    /\ milestones = args.milestones
    /\ milestone = Unbound
    /\ k = 0
    /\ u = Unbound
    /\ u0 = [order |-> 0, from |-> Unbound, stepsize |-> Unbound]
    /\ lambda_stepsize = Unbound
    /\ newton_steps = 0
    /\ halvings = 0
    /\ u_corrections = 0
    /\ nw = NewtonIdle
    /\ trace = <<>>

\* variant: the error of the initial solve is swallowed and the loop entered
InitialSolveFails_swallowed ==
    /\ pc = "start"
    /\ \E below \in NormBehaviours(args.max_newton_steps) :
          ~solve(below, args.max_newton_steps).is_converged
    /\ trace' = Append(trace, Event("newton", k, lmbda, Unbound, FALSE))
    /\ lambda_stepsize' = args.lambda_stepsize0
    /\ pc' = "loop"
    /\ UNCHANGED <<args, exc, lmbda, milestones, milestone, k, u, u0,
                   newton_steps, halvings, u_corrections, nw>>

\* lines 53-64: the initial solve does not converge and the error is re-raised
InitialSolveFails ==
    /\ pc = "start"
    /\ \E below \in NormBehaviours(args.max_newton_steps) :
          LET res == solve(below, args.max_newton_steps) IN
          /\ ~res.is_converged
          /\ trace' = Append(trace, Event("newton", k, lmbda, Unbound, FALSE))
    /\ pc' = "raised"
    /\ exc' = "NewtonConvergenceError"
    /\ UNCHANGED <<args, lmbda, milestones, milestone, k, u, u0,
                   lambda_stepsize, newton_steps, halvings, u_corrections, nw>>

\* lines 53-71: the initial solve converges; callback(0, lambda0, u); the
\* first milestone is drawn with next(), which raises StopIteration on an
\* empty iterator
InitialSolveConverges ==
    /\ pc = "start"
    /\ \E below \in NormBehaviours(args.max_newton_steps) :
          LET res == solve(below, args.max_newton_steps) IN
          /\ res.is_converged
          /\ trace' = trace \o << Event("newton", k, lmbda, Unbound, TRUE),
                                  Event("callback", k, lmbda, Unbound, TRUE) >>
    /\ u' = lmbda
    /\ k' = next_k(k)
    /\ lambda_stepsize' = args.lambda_stepsize0
    /\ IF milestones.given
       THEN IF milestones.rest = <<>>
            THEN /\ pc' = "raised"
                 /\ exc' = "StopIteration"
                 /\ UNCHANGED <<milestone, milestones>>
            ELSE /\ milestone' = Head(milestones.rest)
                 /\ milestones' = [milestones EXCEPT !.rest = Tail(@)]
                 /\ pc' = "loop"
                 /\ exc' = ""
       ELSE /\ pc' = "loop"
            /\ exc' = ""
            /\ UNCHANGED <<milestone, milestones>>
    /\ u_corrections' = 0
    /\ UNCHANGED <<args, lmbda, u0, newton_steps, halvings, nw>>

\* variant: continue for break, the loop spins once k > max_steps
MaxStepsReached_continues ==
    /\ pc = "loop"
    /\ max_steps_exceeded
    /\ pc' = "loop"
    /\ UNCHANGED <<args, exc, lmbda, milestones, milestone, k, u, u0,
                   lambda_stepsize, newton_steps, halvings, u_corrections, nw, trace>>

\* lines 73-75: k > max_steps ends the loop
MaxStepsReached ==
    /\ pc = "loop"
    /\ max_steps_exceeded
    /\ pc' = "returned"
    /\ UNCHANGED <<args, exc, lmbda, milestones, milestone, k, u, u0,
                   lambda_stepsize, newton_steps, halvings, u_corrections, nw, trace>>

\* lines 83-91: the predictor
Predictor ==
    /\ pc = "loop"
    /\ ~max_steps_exceeded
    /\ k <= MaxK
    /\ LET lmbda_new == clamp(FAdd(lmbda, lambda_stepsize))
       IN /\ lmbda' = lmbda_new
          /\ trace' = Append(trace, Event("predictor", k, lmbda_new, lambda_stepsize, TRUE))
    /\ u0' = IF args.use_first_order_predictor
             THEN [order |-> 1, from |-> u, stepsize |-> lambda_stepsize]
             ELSE [order |-> 0, from |-> u, stepsize |-> Unbound]
    /\ pc' = "corrector"
    /\ UNCHANGED <<args, exc, milestones, milestone, k, u,
                   lambda_stepsize, newton_steps, halvings, u_corrections, nw>>

\* lines 87-91: the array u0 refers to: with u0 = u the array u refers to,
\* else the new array u + du_dlmbda * lambda_stepsize
array_of_u0 == IF u0.order = 0 THEN "u" ELSE "u + du_dlmbda * lambda_stepsize"

\* variant: the error of the corrector is not caught
CorrectorFails_raises ==
    /\ pc = "corrector"
    /\ halvings < MaxHalvings
    /\ \E below \in NormBehaviours(args.max_newton_steps) :
          ~solve(below, args.max_newton_steps).is_converged
    /\ trace' = Append(trace, Event("newton", k, lmbda, lambda_stepsize, FALSE))
    /\ halvings' = halvings + 1
    /\ pc' = "raised"
    /\ exc' = "NewtonConvergenceError"
    /\ UNCHANGED <<args, lmbda, milestones, milestone, k, u, u0,
                   lambda_stepsize, newton_steps, u_corrections, nw>>

\* lines 94-108: the corrector does not converge: back off and retry
CorrectorFails ==
    /\ pc = "corrector"
    /\ halvings < MaxHalvings
    /\ \E below \in NormBehaviours(args.max_newton_steps) :
          LET res == solve(below, args.max_newton_steps) IN
          /\ ~res.is_converged
          /\ trace' = Append(trace, Event("newton", k, lmbda, lambda_stepsize, FALSE))
          \* the res.k corrections go to the array the solver iterates on
          /\ \E on \in solve_iterates_on(array_of_u0) :
                u_corrections' = IF on = "u"
                                 THEN u_corrections + res.k
                                 ELSE u_corrections
    /\ lmbda' = backoff_lmbda(lmbda, lambda_stepsize)
    /\ lambda_stepsize' = backoff_stepsize(lambda_stepsize)
    /\ halvings' = halvings + 1
    /\ pc' = "loop"
    /\ UNCHANGED <<args, exc, milestones, milestone, k, u, u0, newton_steps, nw>>

\* line 121: the division by max_newton_steps - 1 raises ZeroDivisionError
\* when that is 0
GrowthDefined == args.max_newton_steps - 1 # 0

\* line 121: (max_newton_steps - newton_steps) / (max_newton_steps - 1)
Slack(steps) == R(args.max_newton_steps - steps, args.max_newton_steps - 1)

\* variant: the sign of the growth term is wrong, 1 - aggressiveness * slack ** 2
Growth_sign_slip(sq) ==
    FSub(R(1, 1), FMul(args.lambda_stepsize_aggressiveness, sq))

\* lines 119-121: the growth factor of the step size, sq being slack ** 2
Growth(sq) ==
    FAdd(R(1, 1), FMul(args.lambda_stepsize_aggressiveness, sq))

\* lines 94-123: the corrector converges: callback(k, lmbda, u), then either
\* the next milestone is drawn or the step size is adapted
CorrectorConverges ==
    /\ pc = "corrector"
    /\ \E below \in NormBehaviours(args.max_newton_steps) :
          LET res == solve(below, args.max_newton_steps) IN
          /\ res.is_converged
          /\ newton_steps' = res.k
          /\ trace' = trace \o << Event("newton", k, lmbda, lambda_stepsize, TRUE),
                                  Event("callback", k, lmbda, lambda_stepsize, TRUE) >>
          /\ IF milestones.given /\ FEq(lmbda, milestone)
             THEN /\ UNCHANGED lambda_stepsize
                  /\ advance_milestone
             ELSE /\ UNCHANGED <<milestone, milestones>>
                  /\ IF GrowthDefined
                     THEN /\ \E sq \in Squares(Slack(res.k)) :
                                lambda_stepsize' =
                                    FMin(FMul(lambda_stepsize, Growth(sq)),
                                         args.lambda_stepsize_max)
                          /\ pc' = "loop"
                          /\ exc' = ""
                     ELSE /\ UNCHANGED lambda_stepsize
                          /\ pc' = "raised"
                          /\ exc' = "ZeroDivisionError"
    /\ u' = lmbda
    /\ k' = next_k(k)
    /\ u_corrections' = 0
    /\ UNCHANGED <<args, lmbda, u0, halvings, nw>>

Next ==
    \/ InitialSolveFails
    \/ InitialSolveConverges
    \/ MaxStepsReached
    \/ Predictor
    \/ CorrectorFails
    \/ CorrectorConverges

Spec == Init /\ [][Next]_vars

-----------------------------------------------------------------------------
(* One call of newton(), statement by statement *)

natural_vars == <<args, pc, exc, lmbda, milestones, milestone, k, u, u0,
                  lambda_stepsize, newton_steps, halvings, u_corrections, trace>>

\* newton(f, jacobian_solver, u0, tol, max_iter) is called: max_iter and the
\* residual-norm behaviour of the problem are drawn; natural() is not running
InitNewton ==
    /\ \E m \in 0 .. MaxIter : \E below \in NormBehaviours(m) :
          nw = [NewtonIdle EXCEPT !.pc = "call", !.max_iter = m, !.below = below]
    /\ args = [lambda0 |-> R(0, 1), lambda_stepsize0 |-> R(1, 1),
               lambda_stepsize_max |-> Inf,
               lambda_stepsize_aggressiveness |-> R(0, 1),
               max_newton_steps |-> 0, max_steps |-> Inf,
               use_first_order_predictor |-> FALSE,
               milestones |-> NoMilestones]
    /\ pc = "idle"
    /\ exc = ""
    /\ lmbda = Unbound
    /\ milestones = NoMilestones
    /\ milestone = Unbound
    /\ k = 0
    /\ u = Unbound
    /\ u0 = [order |-> 0, from |-> Unbound, stepsize |-> Unbound]
    /\ lambda_stepsize = Unbound
    /\ newton_steps = 0
    /\ halvings = 0
    /\ u_corrections = 0
    /\ trace = <<>>

\* lines 11-19: u = u0.copy(), the first residual norm, k = 0, is_converged = False
NewtonEnter ==
    /\ nw.pc = "call"
    /\ nw' = [nw EXCEPT !.pc = "loop", !.k = 0, !.is_converged = FALSE,
                        !.u = copy(nw.u0),
                        !.arrays = [a \in {nw.u0, copy(nw.u0)} |-> 0]]
    /\ UNCHANGED natural_vars

\* lines 20-23: inside the loop the norm is below tol: is_converged = True, break
NewtonConverged ==
    /\ nw.pc = "loop"
    /\ loop_continues(nw.k, nw.max_iter)
    /\ nw.below[nw.k]
    /\ nw' = [nw EXCEPT !.pc = "after_loop", !.is_converged = TRUE]
    /\ UNCHANGED natural_vars

\* lines 20-28: one correction: du = jacobian_solver(u, -fu), u += du, the
\* residual and its norm are evaluated again, k += 1
NewtonCorrection ==
    /\ nw.pc = "loop"
    /\ loop_continues(nw.k, nw.max_iter)
    /\ ~nw.below[nw.k]
    /\ nw' = [nw EXCEPT !.solves = @ + 1,
                        !.arrays = [@ EXCEPT ![nw.u] = @ + 1],
                        !.k = @ + 1]
    /\ UNCHANGED natural_vars

\* line 20: k < max_iter is false, the loop ends
NewtonLoopEnds ==
    /\ nw.pc = "loop"
    /\ ~loop_continues(nw.k, nw.max_iter)
    /\ nw' = [nw EXCEPT !.pc = "after_loop"]
    /\ UNCHANGED natural_vars

\* lines 32-35: raise NewtonConvergenceError("... after {k} steps")
NewtonRaise ==
    /\ nw.pc = "after_loop"
    /\ ~nw.is_converged
    /\ nw' = [nw EXCEPT !.pc = "raised"]
    /\ UNCHANGED natural_vars

\* line 37: return u
NewtonReturn ==
    /\ nw.pc = "after_loop"
    /\ nw.is_converged
    /\ nw' = [nw EXCEPT !.pc = "returned"]
    /\ UNCHANGED natural_vars

NextNewton ==
    \/ NewtonEnter
    \/ NewtonConverged
    \/ NewtonCorrection
    \/ NewtonLoopEnds
    \/ NewtonRaise
    \/ NewtonReturn

SpecNewton == InitNewton /\ [][NextNewton]_vars

\* either entry point is called: natural(), or newton() on its own
SpecAll == (Init \/ InitNewton) /\ [][Next \/ NextNewton]_vars

\* natural() called with a finite max_steps.  The predictor order decides the
\* initial guess of the corrector only (lines 87-91), not the course of the
\* loop: the default order is taken.
LiveArgs ==
    {a \in GridArgs : ~IsInf(a.max_steps)
                      /\ a.use_first_order_predictor = DefaultArgs.use_first_order_predictor}

InitLive == Init /\ args \in LiveArgs

\* natural() is sequential code in one thread: while it has a next statement
\* to execute, it executes it
SpecLive == InitLive /\ [][Next]_vars /\ WF_vars(Next)

-----------------------------------------------------------------------------
(* Reading the trace *)

IsEv(i, ev) == trace[i].ev = ev
Callbacks == SelectSeq(trace, LAMBDA e : e.ev = "callback")
\* the number of callback invocations among the first i events
RECURSIVE CallbacksBefore(_)
CallbacksBefore(i) ==
    IF i = 0 THEN 0
    ELSE CallbacksBefore(i - 1) + (IF trace[i].ev = "callback" THEN 1 ELSE 0)
\* event i is a Newton failure of a continuation step (not of the initial solve)
IsCorrectorFailure(i) == i > 1 /\ IsEv(i, "newton") /\ ~trace[i].ok
Last(seq) == seq[Len(seq)]
MaxStepsFinite == ~IsInf(args.max_steps)

-----------------------------------------------------------------------------
(* C1..C10 *)

\* C1: at the start of every iteration of the continuation loop the stored
\* lmbda is the parameter value at which the stored u was last accepted.
C1_StoredPairConsistent == pc = "loop" => lmbda = u

\* C2: the lmbda values handed to the callback never decrease over a run.
C2_CallbackLmbdaMonotone ==
    \A i \in 1 .. Len(Callbacks) - 1 : FLe(Callbacks[i].lmbda, Callbacks[i + 1].lmbda)

\* C3: with milestones, a trial lmbda never exceeds the pending milestone, and
\* a callback with lmbda above a milestone m comes only after a callback with
\* lmbda equal to m, for every iterable of milestones.
C3_MilestonesNotSkipped ==
    args.milestones.given =>
        /\ pc = "corrector" => FLe(lmbda, milestone)
        /\ \A i \in 1 .. Len(trace) : \A j \in 1 .. Len(args.milestones.rest) :
              (IsEv(i, "callback") /\ FLt(args.milestones.rest[j], trace[i].lmbda))
                  => \E h \in 1 .. i - 1 :
                        IsEv(h, "callback") /\ trace[h].lmbda = args.milestones.rest[j]

\* C4: the callback that reports the last milestone is the last thing
\* natural() does: it returns, with no predictor, Newton solve or callback
\* after it.
C4_ReturnsAtLastMilestone ==
    (args.milestones.given /\ args.milestones.rest # <<>>) =>
        \A i \in 1 .. Len(trace) :
            (IsEv(i, "callback") /\ trace[i].lmbda = Last(args.milestones.rest))
                => (i = Len(trace) /\ pc = "returned" /\ exc = "")

C4_Witness ==
    /\ args.milestones.given
    /\ Len(args.milestones.rest) = 2
    /\ halvings > 0
    /\ trace # <<>>
    /\ IsEv(Len(trace), "callback")
    /\ Last(trace).lmbda = Last(args.milestones.rest)

\* C5: a Newton failure of a continuation step is followed by nothing but
\* the next predictor, with the same step index: no callback, no increment
\* of k, no exception.
C5_FailureInvisible ==
    \A i \in 1 .. Len(trace) :
        IsCorrectorFailure(i) =>
            /\ exc # "NewtonConvergenceError"
            /\ IF i = Len(trace)
               THEN pc = "loop" /\ exc = "" /\ k = trace[i].k
               ELSE IsEv(i + 1, "predictor") /\ trace[i + 1].k = trace[i].k

C5_Witness ==
    \E i \in 1 .. Len(trace) - 1 : IsCorrectorFailure(i) /\ IsEv(i + 1, "predictor")

\* C6: after a Newton failure at a trial lmbda with step size s, the next
\* prediction uses a step size that is exactly half of s and a trial lmbda
\* strictly smaller than the failed one.
C6_BackoffHalvesAndRetreats ==
    \A i \in 1 .. Len(trace) - 1 :
        IsCorrectorFailure(i) =>
            /\ IsEv(i + 1, "predictor")
            /\ FMul(trace[i + 1].stepsize, R(2, 1)) = trace[i].stepsize
            /\ FLt(trace[i + 1].lmbda, trace[i].lmbda)

\* C7: the callback is invoked with the indices 0, 1, 2, ... in this order,
\* each right after a converged Newton solve of the same step, and all
\* predictor and Newton work of step N comes after the callback of step N-1.
C7_ConsecutiveIndices ==
    /\ \A i \in 1 .. Len(Callbacks) : Callbacks[i].k = i - 1
    /\ \A i \in 1 .. Len(trace) :
          /\ IsEv(i, "callback") =>
                i > 1 /\ IsEv(i - 1, "newton") /\ trace[i - 1].ok
                      /\ trace[i - 1].k = trace[i].k
          /\ (IsEv(i, "predictor") \/ IsEv(i, "newton")) =>
                trace[i].k = CallbacksBefore(i)

C7_Witness == Len(Callbacks) >= 3 /\ halvings > 0

\* C8: with a finite max_steps no callback, predictor or Newton solve happens
\* with a step index above max_steps, and once k exceeds max_steps the loop
\* can only return.
C8_MaxStepsRespected ==
    MaxStepsFinite =>
        /\ \A i \in 1 .. Len(trace) : FLe(R(trace[i].k, 1), args.max_steps)
        /\ (pc = "loop" /\ FLt(args.max_steps, R(k, 1))) =>
              (ENABLED MaxStepsReached /\ ~ENABLED Predictor)
        /\ (pc = "returned" /\ FLt(args.max_steps, R(k, 1))) => exc = ""

C8_Witness ==
    /\ MaxStepsFinite
    /\ pc = "returned"
    /\ FLt(args.max_steps, R(k, 1))
    /\ k >= 3
    /\ halvings > 0

\* C9: every prediction uses a step size that is at most lambda_stepsize_max.
C9_StepsizeBounded ==
    \A i \in 1 .. Len(trace) :
        IsEv(i, "predictor") => FLe(trace[i].stepsize, args.lambda_stepsize_max)

\* C10: when the initial solve fails, natural() raises the convergence error
\* having done nothing else: no callback, no milestone drawn, no step.
C10_InitialFailurePropagates ==
    (trace # <<>> /\ ~trace[1].ok) =>
        /\ pc = "raised"
        /\ exc = "NewtonConvergenceError"
        /\ Len(trace) = 1
        /\ k = 0
        /\ milestones = args.milestones
        /\ milestone = Unbound

C10_Witness ==
    /\ pc = "raised"
    /\ exc = "NewtonConvergenceError"
    /\ args.milestones.rest # <<>>
    /\ args.max_newton_steps > 0

-----------------------------------------------------------------------------
(* C11..C19 *)

\* C11: exhaustion of the milestone sequence never surfaces as an error, for
\* every milestone sequence including the empty one: natural() never ends by
\* raising StopIteration.
C11_ExhaustionNotAnError == args.milestones.given => exc # "StopIteration"

\* C16: with max_newton_steps = 1 the growth of the step size never causes a
\* division fault.
C16_GrowthGuarded == args.max_newton_steps = 1 => exc # "ZeroDivisionError"

\* the call of newton() has ended
NewtonEnded == nw.pc \in {"returned", "raised"}
\* the numbers of corrections after which the residual norm is below tol
BelowTolAt == {j \in 0 .. nw.max_iter : nw.below[j]}
Min(S) == CHOOSE x \in S : \A y \in S : x <= y

\* C12: newton() with max_iter = 0 and a u0 whose residual norm is already
\* below tol returns with 0 iterations and signals no failure.
C12_ConvergedStartZeroBudget ==
    (NewtonEnded /\ nw.max_iter = 0 /\ nw.below[0]) =>
        (nw.pc = "returned" /\ nw.k = 0 /\ nw.solves = 0)

\* C13: for max_iter >= 1, when the norm first falls below tol after j
\* corrections, 0 <= j <= max_iter, newton() returns with j corrections made;
\* it raises only when the norm is below tol after no j <= max_iter.
C13_ReturnsFirstConvergedIterate ==
    (NewtonEnded /\ nw.max_iter >= 1) =>
        /\ BelowTolAt # {} =>
              (nw.pc = "returned" /\ nw.k = Min(BelowTolAt) /\ nw.solves = Min(BelowTolAt))
        /\ nw.pc = "raised" => BelowTolAt = {}

\* C14: when newton() raises, the iteration count it reports is max_iter and
\* exactly max_iter linear solves have been made.
C14_FailureCarriesMaxIter ==
    nw.pc = "raised" => (nw.k = nw.max_iter /\ nw.solves = nw.max_iter)

C14_Witness ==
    /\ nw.pc = "raised"
    /\ nw.max_iter >= 2
    /\ BelowTolAt = {}

Accepted == pc = "corrector" /\ k' = k + 1
Failed == pc = "corrector" /\ k' = k /\ pc' = "loop"
OnMilestone == milestones.given /\ FEq(lmbda, milestone)

\* C17: an accepted step that lands on the pending milestone leaves
\* lambda_stepsize unchanged; lambda_stepsize changes only by the halving
\* after a Newton failure or on an accepted step off the milestone; and it
\* decreases only by that halving or by the clamp to lambda_stepsize_max.
C17_StepsizeChanges ==
    [][ /\ (Accepted /\ OnMilestone) => lambda_stepsize' = lambda_stepsize
        /\ (pc # "start" /\ lambda_stepsize' # lambda_stepsize) =>
              \/ Failed /\ lambda_stepsize' = FHalf(lambda_stepsize)
              \/ Accepted /\ ~OnMilestone
        /\ (pc # "start" /\ FLt(lambda_stepsize', lambda_stepsize)) =>
              \/ Failed
              \/ Accepted /\ lambda_stepsize' = args.lambda_stepsize_max
      ]_vars

\* a milestone was just hit with the step size kept, after a halving and
\* after the step size had grown above its initial value
C17_Witness ==
    /\ pc = "loop"
    /\ args.milestones.given
    /\ Len(args.milestones.rest) = 2
    /\ halvings > 0
    /\ trace # <<>>
    /\ IsEv(Len(trace), "callback")
    /\ Last(trace).lmbda = args.milestones.rest[1]
    /\ lambda_stepsize = Last(trace).stepsize
    /\ \E i \in 1 .. Len(trace) :
          IsEv(i, "predictor") /\ FLt(args.lambda_stepsize0, trace[i].stepsize)

\* natural() has returned or raised
Ended == pc \in {"returned", "raised"}

\* C19: with a finite max_steps natural() ends, by returning or raising, after
\* at most max_steps accepted continuation steps; the one way it does not end
\* is a run of corrector failures without end, no step being accepted any more.
C19_Terminates ==
    /\ \/ <>Ended
       \/ ([]<><<Failed>>_vars) /\ (<>[][~Accepted]_vars)
    /\ [](Len(Callbacks) - 1 <= IntOfFloat(args.max_steps))

C19_Witness ==
    /\ pc = "returned"
    /\ MaxStepsFinite
    /\ halvings >= 2
    /\ R(Len(Callbacks) - 1, 1) = args.max_steps
    /\ Len(Callbacks) >= 3

=============================================================================
